---- MODULE Spec2Model ----
(***************************************************************************)
(* Model of personal_config/keyboard_layout_state.py: the                  *)
(* KeyboardLayoutStateX11 widget, the two external utilities it shells out *)
(* to (setxkbmap, xkblayout-state) and the X keyboard state they act on.   *)
(*                                                                         *)
(* Python strings are TLA+ strings (TLC evaluates Len, \o and SubSeq on    *)
(* them); the bytes printed by a utility are sequences of byte values.     *)
(* The outcome of a call is a record: [kind |-> "return", value |-> v] or  *)
(* [kind |-> "raise", exc |-> class name, value |-> message].              *)
(***************************************************************************)
EXTENDS Integers, Sequences, FiniteSets, TLC

(* ---------------------------------------------------------------------- *)
(* Bounds of the model                                                     *)
(* ---------------------------------------------------------------------- *)

\* longest configured_layouts list drawn in Init
MaxLayouts == 2

(* ---------------------------------------------------------------------- *)
(* Python values                                                           *)
(* ---------------------------------------------------------------------- *)

None == "<None>"

Return(v) == [kind |-> "return", exc |-> None, value |-> v]

Raise(e, msg) == [kind |-> "raise", exc |-> e, value |-> msg]

\* the exception classes that occur, each with the classes an
\* `except` clause may name to catch it
Ancestors ==
  [ KeyError |-> {"KeyError", "LookupError", "Exception"},
    ConfigError |-> {"ConfigError", "Exception"},
    CalledProcessError |-> {"CalledProcessError", "SubprocessError", "Exception"},
    FileNotFoundError |-> {"FileNotFoundError", "OSError", "Exception"},
    PermissionError |-> {"PermissionError", "OSError", "Exception"},
    UnicodeDecodeError |-> {"UnicodeDecodeError", "UnicodeError", "ValueError", "Exception"} ]

\* does a handler list `except h1: ... except h2: ...` catch exception e
Catches(handlers, e) == \E h \in handlers : h \in Ancestors[e]

\* truth value of a str-or-None in `if x:`
Truthy(s) == s # None /\ s # ""

(* ---------------------------------------------------------------------- *)
(* str and bytes methods                                                   *)
(* ---------------------------------------------------------------------- *)

CharAt(s, i) == SubSeq(s, i, i)

Lowercase == "abcdefghijklmnopqrstuvwxyz"

Uppercase == "ABCDEFGHIJKLMNOPQRSTUVWXYZ"

UpperChar(c) ==
  IF \E i \in 1..Len(Lowercase) : CharAt(Lowercase, i) = c
  THEN CharAt(Uppercase, CHOOSE i \in 1..Len(Lowercase) : CharAt(Lowercase, i) = c)
  ELSE c

RECURSIVE Upper(_)
\* str.upper()
Upper(s) == IF Len(s) = 0 THEN "" ELSE UpperChar(CharAt(s, 1)) \o Upper(SubSeq(s, 2, Len(s)))

Whitespace == {" ", "\n", "\t"}

RECURSIVE LStrip(_)
LStrip(s) ==
  IF Len(s) > 0 /\ CharAt(s, 1) \in Whitespace THEN LStrip(SubSeq(s, 2, Len(s))) ELSE s

RECURSIVE RStrip(_)
RStrip(s) ==
  IF Len(s) > 0 /\ CharAt(s, Len(s)) \in Whitespace THEN RStrip(SubSeq(s, 1, Len(s) - 1)) ELSE s

\* str.strip()
Strip(s) == LStrip(RStrip(s))

RECURSIVE Join(_, _)
\* sep.join(items)
Join(sep, items) ==
  IF Len(items) = 0 THEN ""
  ELSE IF Len(items) = 1 THEN items[1]
  ELSE items[1] \o sep \o Join(sep, Tail(items))

\* l in list
InList(l, list) == \E i \in 1..Len(list) : list[i] = l

\* the characters the utilities print, with their byte values
Ord ==
  ("u" :> 117) @@ ("s" :> 115) @@ ("d" :> 100) @@ ("e" :> 101) @@
  ("f" :> 102) @@ ("r" :> 114) @@ (" " :> 32) @@ ("\n" :> 10)

\* the bytes a utility writes for a string
Encode(s) == [i \in 1..Len(s) |-> Ord[CharAt(s, i)]]

\* 0xFF occurs in no well-formed UTF-8 text; it is the only byte above
\* 0x7F that the modelled utility output ever holds
InvalidByte == 255

Chr(b) == CHOOSE c \in DOMAIN Ord : Ord[c] = b

RECURSIVE DecodeText(_)
DecodeText(bs) == IF Len(bs) = 0 THEN "" ELSE Chr(Head(bs)) \o DecodeText(Tail(bs))

\* bytes.decode()
Decode(bs) ==
  IF \E i \in 1..Len(bs) : bs[i] >= 128
  THEN Raise("UnicodeDecodeError", "invalid start byte")
  ELSE Return(DecodeText(bs))

(* ---------------------------------------------------------------------- *)
(* The static hotkey table                                                 *)
(* ---------------------------------------------------------------------- *)

ClassName == "KeyboardLayoutStateX11"

switch_hotkey_options ==
  ("Left Alt (while pressed)" :> "grp:lswitch") @@
  ("Left Win (while pressed)" :> "grp:lwin_switch") @@
  ("Right Win (while pressed)" :> "grp:rwin_switch") @@
  ("Any Win key (while pressed)" :> "grp:win_switch") @@
  ("Caps Lock (while pressed), Alt+Caps Lock does the original capslock action" :> "grp:caps_switch") @@
  ("Right Ctrl (while pressed)" :> "grp:rctrl_switch") @@
  ("Right Alt" :> "grp:toggle") @@
  ("Left Alt" :> "grp:lalt_toggle") @@
  ("Caps Lock" :> "grp:caps_toggle") @@
  ("Shift+Caps Lock" :> "grp:shift_caps_toggle") @@
  ("Caps Lock (to first layout), Shift+Caps Lock (to last layout)" :> "grp:shift_caps_switch") @@
  ("Left Win (to first layout), Right Win/Menu (to last layout)" :> "grp:win_menu_switch") @@
  ("Left Ctrl (to first layout), Right Ctrl (to last layout)" :> "grp:lctrl_rctrl_switch") @@
  ("Alt+Caps Lock" :> "grp:alt_caps_toggle") @@
  ("Both Shift keys together" :> "grp:shifts_toggle") @@
  ("Both Alt keys together" :> "grp:alts_toggle") @@
  ("Both Ctrl keys together" :> "grp:ctrls_toggle") @@
  ("Ctrl+Shift" :> "grp:ctrl_shift_toggle") @@
  ("Left Ctrl+Left Shift" :> "grp:lctrl_lshift_toggle") @@
  ("Right Ctrl+Right Shift" :> "grp:rctrl_rshift_toggle") @@
  ("Alt+Ctrl" :> "grp:ctrl_alt_toggle") @@
  ("Alt+Shift" :> "grp:alt_shift_toggle") @@
  ("Left Alt+Left Shift" :> "grp:lalt_lshift_toggle") @@
  ("Alt+Space" :> "grp:alt_space_toggle") @@
  ("Menu" :> "grp:menu_toggle") @@
  ("Left Win" :> "grp:lwin_toggle") @@
  ("Win Key+Space" :> "grp:win_space_toggle") @@
  ("Right Win" :> "grp:rwin_toggle") @@
  ("Left Shift" :> "grp:lshift_toggle") @@
  ("Right Shift" :> "grp:rshift_toggle") @@
  ("Left Ctrl" :> "grp:lctrl_toggle") @@
  ("Right Ctrl" :> "grp:rctrl_toggle") @@
  ("Scroll Lock" :> "grp:sclk_toggle") @@
  ("LeftCtrl+LeftWin (to first layout), RightCtrl+Menu (to second layout)" :> "grp:lctrl_lwin_rctrl_menu")

\* d[k]
DictGet(d, k) == IF k \in DOMAIN d THEN Return(d[k]) ELSE Raise("KeyError", k)

\* a raise inside `try:` that one of the `except` clauses catches is
\* replaced by what the handler does; any other outcome passes through
TryExcept(r, handlers, handled) ==
  IF r.kind = "raise" /\ Catches(handlers, r.exc) THEN handled ELSE r

HasGrpPrefix(s) == Len(s) >= 4 /\ SubSeq(s, 1, 4) = "grp:"

\* variant: a selector that already is an option string is passed through
_generate_option_passthrough(hotkey) ==
  IF HasGrpPrefix(hotkey) THEN Return(hotkey)
  ELSE TryExcept(DictGet(switch_hotkey_options, hotkey), {"ValueError"},
                 Raise("ConfigError", ClassName \o ": unknown hotkey " \o hotkey))

_generate_option(hotkey) ==
  TryExcept(DictGet(switch_hotkey_options, hotkey), {"ValueError"},
            Raise("ConfigError", ClassName \o ": unknown hotkey " \o hotkey))

(* ---------------------------------------------------------------------- *)
(* State                                                                   *)
(* ---------------------------------------------------------------------- *)

VARIABLES
  backend,             \* qtile.core.name
  onPath,              \* the programs shutil.which() resolves
  faults,              \* per program, how running it ends: "ok", "exit" (non-zero) or "oserror"
  framing,             \* bytes xkblayout-state prints around the layout name
  xkb,                 \* the X keyboard state: the loaded layouts and the active group
  configured_layouts,  \* widget option
  display_map,         \* widget option
  switch_hotkey,       \* widget option
  _option,             \* self._option, None until _configure stores it
  status,              \* "new", "configured", or "failed" once _configure has raised
  op,                  \* the operation that ran last
  ret,                 \* its outcome
  issued,              \* the external commands it issued, in order, with their results
  layout,              \* outcome of the get_layout call made by the last operation
  streak               \* get_layout/poll calls made in a row right after a next_layout

vars ==
  << backend, onPath, faults, framing, xkb, configured_layouts, display_map,
     switch_hotkey, _option, status, op, ret, issued, layout, streak >>

envVars == << backend, onPath, faults, framing >>

configVars == << configured_layouts, display_map, switch_hotkey >>

(* ---------------------------------------------------------------------- *)
(* The external utilities                                                  *)
(* ---------------------------------------------------------------------- *)

required_programs == <<"setxkbmap", "xkblayout-state">>

Programs == {required_programs[i] : i \in 1..Len(required_programs)}

ClearCommand == <<"setxkbmap", "-layout", "", "-variant", "", "-option", "">>

ApplyCommand(layouts, option) ==
  <<"setxkbmap", "-layout", Join(",", layouts)>>
    \o (IF Truthy(option) THEN <<"-option", option>> ELSE << >>)

QueryCommand == <<"xkblayout-state", "print", "%s">>

AdvanceCommand == <<"xkblayout-state", "set", "+1">>

\* index of the first sep in s, 0 when there is none
FirstIndex(s, sep) ==
  IF \E i \in 1..Len(s) : CharAt(s, i) = sep
  THEN CHOOSE i \in 1..Len(s) :
         CharAt(s, i) = sep /\ \A j \in 1..(i - 1) : CharAt(s, j) # sep
  ELSE 0

RECURSIVE SplitLayouts(_)
\* the layout names setxkbmap reads from its -layout argument
SplitLayouts(s) ==
  IF s = "" THEN << >>
  ELSE IF FirstIndex(s, ",") = 0 THEN <<s>>
  ELSE <<SubSeq(s, 1, FirstIndex(s, ",") - 1)>>
         \o SplitLayouts(SubSeq(s, FirstIndex(s, ",") + 1, Len(s)))

ActiveLayout(x) == IF Len(x.layouts) = 0 THEN "" ELSE x.layouts[x.group]

\* what a command does when it runs and exits with status 0
RunUtility(command, x) ==
  IF command[1] = "setxkbmap"
  THEN [stdout |-> << >>, x |-> [layouts |-> SplitLayouts(command[3]), group |-> 1]]
  ELSE IF command[2] = "print"
  THEN [stdout |-> framing.pre \o Encode(ActiveLayout(x)) \o framing.post, x |-> x]
  ELSE [stdout |-> << >>,
        x |-> IF Len(x.layouts) = 0 THEN x
              ELSE [x EXCEPT !.group = (x.group % Len(x.layouts)) + 1]]

\* subprocess.check_output(command) with the X keyboard state x:
\* the outcome of the call and the keyboard state it leaves
check_output(command, x) ==
  IF command[1] \notin onPath
  THEN [out |-> Raise("FileNotFoundError", command[1]), x |-> x]
  ELSE IF faults[command[1]] = "oserror"
  THEN [out |-> Raise("PermissionError", command[1]), x |-> x]
  ELSE IF faults[command[1]] = "exit"
  THEN [out |-> Raise("CalledProcessError", command[1]), x |-> x]
  ELSE LET ran == RunUtility(command, x) IN [out |-> Return(ran.stdout), x |-> ran.x]

\* one entry of `issued`
Issue(command, r) ==
  [cmd |-> command, res |-> IF r.out.kind = "return" THEN "ok" ELSE r.out.exc]

\* a function body that falls off its end returns None
ThenNone(r) == IF r.kind = "return" THEN Return(None) ELSE r

(* ---------------------------------------------------------------------- *)
(* The widget's methods.  Each takes the X keyboard state it starts from   *)
(* and yields its outcome, the commands it issued and the keyboard state   *)
(* it leaves.                                                              *)
(* ---------------------------------------------------------------------- *)

\* variant: the CalledProcessError handler is missing
_clear_old_layouts_config_exit_uncaught(x) ==
  LET run == check_output(ClearCommand, x)
  IN  [ ret |-> TryExcept(ThenNone(run.out), {"OSError"}, Return(None)),
        issued |-> <<Issue(ClearCommand, run)>>,
        x |-> run.x ]

_clear_old_layouts_config(x) ==
  LET run == check_output(ClearCommand, x)
  IN  [ ret |-> TryExcept(ThenNone(run.out), {"CalledProcessError", "OSError"}, Return(None)),
        issued |-> <<Issue(ClearCommand, run)>>,
        x |-> run.x ]

\* variant: the layouts are joined by spaces
_configure_layouts_spaces(layouts, option, x) ==
  LET command == <<"setxkbmap", "-layout", Join(" ", layouts)>>
                   \o (IF Truthy(option) THEN <<"-option", option>> ELSE << >>)
      run == check_output(command, x)
  IN  [ ret |-> TryExcept(ThenNone(run.out), {"CalledProcessError", "OSError"}, Return(None)),
        issued |-> <<Issue(command, run)>>,
        x |-> run.x ]

_configure_layouts(layouts, option, x) ==
  LET command == ApplyCommand(layouts, option)
      run == check_output(command, x)
  IN  [ ret |-> TryExcept(ThenNone(run.out), {"CalledProcessError", "OSError"}, Return(None)),
        issued |-> <<Issue(command, run)>>,
        x |-> run.x ]

\* the first required program shutil.which() does not resolve, None if all do
FirstMissing ==
  IF \E i \in 1..Len(required_programs) : required_programs[i] \notin onPath
  THEN required_programs[CHOOSE i \in 1..Len(required_programs) :
          /\ required_programs[i] \notin onPath
          /\ \A j \in 1..(i - 1) : required_programs[j] \in onPath]
  ELSE None

\* variant: the layouts are applied first and the old configuration cleared after
_configure_apply_first(x) ==
  LET nothing(r, o) == [ret |-> r, option |-> o, issued |-> << >>, x |-> x]
      generated == _generate_option(switch_hotkey)
      applied == _configure_layouts(configured_layouts, generated.value, x)
      cleared == _clear_old_layouts_config(applied.x)
  IN  IF backend # "x11"
      THEN nothing(Raise("ConfigError", ClassName \o " does not support backend: " \o backend),
                   _option)
      ELSE IF FirstMissing # None
      THEN nothing(Raise("ConfigError", ClassName \o " requires " \o FirstMissing \o " utility"),
                   _option)
      ELSE IF generated.kind = "raise"
      THEN nothing(generated, _option)
      ELSE IF applied.ret.kind = "raise"
      THEN [ret |-> applied.ret, option |-> generated.value,
            issued |-> applied.issued, x |-> applied.x]
      ELSE [ret |-> cleared.ret, option |-> generated.value,
            issued |-> applied.issued \o cleared.issued, x |-> cleared.x]

_configure(x) ==
  LET nothing(r, o) == [ret |-> r, option |-> o, issued |-> << >>, x |-> x]
      generated == _generate_option(switch_hotkey)
      cleared == _clear_old_layouts_config(x)
      applied == _configure_layouts(configured_layouts, generated.value, cleared.x)
  IN  IF backend # "x11"
      THEN nothing(Raise("ConfigError", ClassName \o " does not support backend: " \o backend),
                   _option)
      ELSE IF FirstMissing # None
      THEN nothing(Raise("ConfigError", ClassName \o " requires " \o FirstMissing \o " utility"),
                   _option)
      ELSE IF generated.kind = "raise"
      THEN nothing(generated, _option)
      ELSE IF cleared.ret.kind = "raise"
      THEN [ret |-> cleared.ret, option |-> generated.value,
            issued |-> cleared.issued, x |-> cleared.x]
      ELSE [ret |-> applied.ret, option |-> generated.value,
            issued |-> cleared.issued \o applied.issued, x |-> applied.x]

\* variant: the output is returned without the membership test
get_layout_unchecked(x) ==
  LET run == check_output(QueryCommand, x)
      decoded == IF run.out.kind = "return" THEN Decode(run.out.value) ELSE run.out
      body == IF decoded.kind = "raise" THEN decoded ELSE Return(Strip(decoded.value))
  IN  [ ret |-> TryExcept(body, {"CalledProcessError", "OSError"}, Return("unknown")),
        issued |-> <<Issue(QueryCommand, run)>>,
        x |-> run.x ]

\* variant: the OSError handler is missing
get_layout_oserror_uncaught(x) ==
  LET run == check_output(QueryCommand, x)
      decoded == IF run.out.kind = "return" THEN Decode(run.out.value) ELSE run.out
      body == IF decoded.kind = "raise" THEN decoded
              ELSE IF InList(Strip(decoded.value), configured_layouts)
              THEN Return(Strip(decoded.value))
              ELSE Return("unknown")
  IN  [ ret |-> TryExcept(body, {"CalledProcessError"}, Return("unknown")),
        issued |-> <<Issue(QueryCommand, run)>>,
        x |-> run.x ]

\* variant: the query is followed by `xkblayout-state set +1`
get_layout_advancing(x) ==
  LET run == check_output(QueryCommand, x)
      decoded == IF run.out.kind = "return" THEN Decode(run.out.value) ELSE run.out
      body == IF decoded.kind = "raise" THEN decoded
              ELSE IF InList(Strip(decoded.value), configured_layouts)
              THEN Return(Strip(decoded.value))
              ELSE Return("unknown")
      after == check_output(AdvanceCommand, run.x)
  IN  [ ret |-> TryExcept(body, {"CalledProcessError", "OSError"}, Return("unknown")),
        issued |-> <<Issue(QueryCommand, run), Issue(AdvanceCommand, after)>>,
        x |-> after.x ]

get_layout(x) ==
  LET run == check_output(QueryCommand, x)
      decoded == IF run.out.kind = "return" THEN Decode(run.out.value) ELSE run.out
      body == IF decoded.kind = "raise" THEN decoded
              ELSE IF InList(Strip(decoded.value), configured_layouts)
              THEN Return(Strip(decoded.value))
              ELSE Return("unknown")
  IN  [ ret |-> TryExcept(body, {"CalledProcessError", "OSError"}, Return("unknown")),
        issued |-> <<Issue(QueryCommand, run)>>,
        x |-> run.x ]

next_layout(x) ==
  LET run == check_output(AdvanceCommand, x)
  IN  [ ret |-> TryExcept(ThenNone(run.out), {"CalledProcessError", "OSError"}, Return(None)),
        issued |-> <<Issue(AdvanceCommand, run)>>,
        x |-> run.x ]

\* variant: the display-map entry is upper-cased too
poll_upper_always(x) ==
  LET got == get_layout(x)
  IN  [ ret |-> IF got.ret.kind = "raise" THEN got.ret
                ELSE IF got.ret.value \in DOMAIN display_map
                THEN Return(Upper(display_map[got.ret.value]))
                ELSE Return(Upper(got.ret.value)),
        layout |-> got.ret,
        issued |-> got.issued,
        x |-> got.x ]

poll(x) ==
  LET got == get_layout(x)
  IN  [ ret |-> IF got.ret.kind = "raise" THEN got.ret
                ELSE IF got.ret.value \in DOMAIN display_map
                THEN Return(display_map[got.ret.value])
                ELSE Return(Upper(got.ret.value)),
        layout |-> got.ret,
        issued |-> got.issued,
        x |-> got.x ]

(* ---------------------------------------------------------------------- *)
(* Initial states                                                          *)
(* ---------------------------------------------------------------------- *)

Backends == {"x11", "wayland"}

Outcomes == {"ok", "exit", "oserror"}

NoFaults == [p \in Programs |-> "ok"]

Framings ==
  { [pre |-> << >>, post |-> << >>],
    [pre |-> <<32>>, post |-> <<32, 10>>],
    [pre |-> << >>, post |-> <<InvalidByte>>] }

LayoutCodes == {"us", "de"}

LayoutLists == UNION {[1..n -> LayoutCodes] : n \in 0..MaxLayouts}

\* the layouts loaded in the X server before the widget is set up
PriorLayouts == <<"us", "fr">>

DisplayMaps ==
  { << >>, ("us" :> "EN"), ("de" :> "de") @@ ("unknown" :> "??") }

Hotkeys == {"Left Alt+Left Shift", "grp:alt_shift_toggle", "Win+Space"}

NoRet == Return(None)

InitWith(hotkeys) ==
  /\ backend \in Backends
  /\ onPath = Programs
  /\ faults = NoFaults
  /\ framing \in Framings
  /\ xkb = [layouts |-> PriorLayouts, group |-> 1]
  /\ configured_layouts \in LayoutLists
  /\ display_map \in DisplayMaps
  /\ switch_hotkey \in hotkeys
  /\ _option = None
  /\ status = "new"
  /\ op = "__init__"
  /\ ret = NoRet
  /\ issued = << >>
  /\ layout = NoRet
  /\ streak = -1

Init == InitWith(Hotkeys)

(* ---------------------------------------------------------------------- *)
(* Actions                                                                 *)
(* ---------------------------------------------------------------------- *)

\* the bar sets the widget up (again, when the bar is reconfigured)
Configure ==
  LET done == _configure(xkb) IN
  /\ status \in {"new", "configured"}
  /\ op' = "_configure"
  /\ ret' = done.ret
  /\ issued' = done.issued
  /\ _option' = done.option
  /\ xkb' = done.x
  /\ status' = IF done.ret.kind = "raise" THEN "failed" ELSE "configured"
  /\ layout' = NoRet
  /\ streak' = -1
  /\ UNCHANGED << envVars, configVars >>

\* the host loop's timer fires
Poll ==
  LET done == poll(xkb) IN
  /\ status = "configured"
  /\ op' = "poll"
  /\ ret' = done.ret
  /\ issued' = done.issued
  /\ layout' = done.layout
  /\ xkb' = done.x
  /\ streak' = IF streak < 0 THEN -1 ELSE IF streak < 2 THEN streak + 1 ELSE 2
  /\ UNCHANGED << envVars, configVars, _option, status >>

GetLayout ==
  LET done == get_layout(xkb) IN
  /\ status = "configured"
  /\ op' = "get_layout"
  /\ ret' = done.ret
  /\ issued' = done.issued
  /\ layout' = done.ret
  /\ xkb' = done.x
  /\ streak' = IF streak < 0 THEN -1 ELSE IF streak < 2 THEN streak + 1 ELSE 2
  /\ UNCHANGED << envVars, configVars, _option, status >>

\* Button1 callback
NextLayout ==
  LET done == next_layout(xkb) IN
  /\ status = "configured"
  /\ op' = "next_layout"
  /\ ret' = done.ret
  /\ issued' = done.issued
  /\ xkb' = done.x
  /\ layout' = NoRet
  /\ streak' = 0
  /\ UNCHANGED << envVars, configVars, _option, status >>

\* what a step of the environment leaves of the last operation's record;
\* the environment of a widget that failed to start is not followed further
EnvStep ==
  /\ status # "failed"
  /\ op' = "env"
  /\ ret' = NoRet
  /\ issued' = << >>
  /\ layout' = NoRet
  /\ streak' = -1
  /\ UNCHANGED << backend, configVars, _option, status >>

\* programs are installed or removed
EnvPath ==
  /\ \E p \in SUBSET Programs : p # onPath /\ onPath' = p
  /\ EnvStep
  /\ UNCHANGED << faults, framing, xkb >>

\* one of the programs starts or stops failing
EnvFault ==
  /\ \E p \in Programs, o \in Outcomes :
       /\ o # faults[p]
       /\ faults' = [faults EXCEPT ![p] = o]
  /\ EnvStep
  /\ UNCHANGED << onPath, framing, xkb >>

\* the user presses the switch hotkey
UserSwitch ==
  /\ \E g \in 1..Len(xkb.layouts) : g # xkb.group /\ xkb' = [xkb EXCEPT !.group = g]
  /\ EnvStep
  /\ UNCHANGED << onPath, faults, framing >>

Next ==
  \/ Configure
  \/ Poll
  \/ GetLayout
  \/ NextLayout
  \/ EnvPath
  \/ EnvFault
  \/ UserSwitch

Spec == Init /\ [][Next]_vars

(* ---------------------------------------------------------------------- *)
(* _generate_option on its own, over every key of the table and a few      *)
(* selectors that are not keys                                             *)
(* ---------------------------------------------------------------------- *)

OtherSelectors ==
  {"Win+Space", "left alt", "", "grp:", "grp:toggle", "grp:alt_shift_toggle"}

Selectors == DOMAIN switch_hotkey_options \cup OtherSelectors

InitOption == InitWith(Selectors)

GenerateOption ==
  /\ op' = "_generate_option"
  /\ ret' = _generate_option(switch_hotkey)
  /\ issued' = << >>
  /\ layout' = NoRet
  /\ streak' = -1
  /\ UNCHANGED << envVars, configVars, xkb, _option, status >>

NextOption == GenerateOption \/ Configure

SpecOption == InitOption /\ [][NextOption]_vars

(* ---------------------------------------------------------------------- *)
(* Properties                                                              *)
(* ---------------------------------------------------------------------- *)

Queries == {"get_layout", "poll"}

ChecksPass ==
  /\ backend = "x11"
  /\ Programs \subseteq onPath
  /\ switch_hotkey \in DOMAIN switch_hotkey_options

\* C1: _generate_option returns the mapped grp: string for every key of the
\* hotkey table and fails with ConfigError "unknown hotkey" for every
\* selector that is not a key.
C1_ResolveOption ==
  op = "_generate_option" =>
    IF switch_hotkey \in DOMAIN switch_hotkey_options
    THEN ret = Return(switch_hotkey_options[switch_hotkey])
    ELSE ret.kind = "raise" /\ ret.exc = "ConfigError"

\* C2 as stated: a selector that starts with "grp:" is returned unchanged.
C2_PrefixedReturnedUnchanged ==
  (op = "_generate_option" /\ HasGrpPrefix(switch_hotkey)) => ret = Return(switch_hotkey)

\* C2 as amended: a selector that starts with "grp:" is looked up in the
\* table like any other; no key starts with "grp:", so the call raises and
\* returns no value.
C2_PrefixedLookedUp ==
  /\ \A k \in DOMAIN switch_hotkey_options : ~HasGrpPrefix(k)
  /\ (op = "_generate_option" /\ HasGrpPrefix(switch_hotkey)) => ret.kind = "raise"

C2_Witness ==
  /\ op = "_generate_option"
  /\ switch_hotkey = "grp:alt_shift_toggle"
  /\ ret.kind = "raise"

\* C3: when the backend is not x11, a utility is not on the search path or
\* the hotkey is not resolvable, _configure raises ConfigError having issued
\* no command; it issues commands only after the three checks have passed.
C3_SetupFailsBeforeCommands ==
  op = "_configure" =>
    /\ ~ChecksPass => (ret.kind = "raise" /\ ret.exc = "ConfigError" /\ issued = << >>)
    /\ issued # << >> => ChecksPass

\* C4: a setup run that succeeds has issued the clear command exactly once
\* and before the apply command; no setup run issues apply without a clear
\* before it.
C4_ClearThenApply ==
  op = "_configure" =>
    /\ ret.kind = "return" =>
         /\ Len(issued) = 2
         /\ issued[1].cmd = ClearCommand
         /\ issued[2].cmd # ClearCommand
         /\ issued[2].cmd[1] = "setxkbmap"
    /\ \A i \in 1..Len(issued) :
         issued[i].cmd # ClearCommand => \E j \in 1..(i - 1) : issued[j].cmd = ClearCommand

C4_Witness ==
  /\ op = "_configure"
  /\ ret.kind = "return"
  /\ Len(issued) = 2
  /\ issued[1].res = "ok"
  /\ issued[2].res = "ok"
  /\ xkb.layouts = configured_layouts

C6_QueryFailureGivesUnknown ==
  (op \in Queries /\ issued[1].res # "ok") =>
    /\ layout = Return("unknown")
    /\ op = "get_layout" => ret = Return("unknown")
    /\ op = "poll" =>
         ret = Return(IF "unknown" \in DOMAIN display_map
                      THEN display_map["unknown"]
                      ELSE "UNKNOWN")

C6_Witness ==
  /\ op = "poll"
  /\ issued[1].res = "FileNotFoundError"
  /\ ret = Return("UNKNOWN")

\* the layout codes get_layout can return, upper-cased
UpperCased == ("us" :> "US") @@ ("de" :> "DE") @@ ("unknown" :> "UNKNOWN")

\* C7: poll returns the display-map entry of the layout get_layout returned
\* when there is one, verbatim, and the upper-cased layout otherwise.
C7_DisplayText ==
  (op = "poll" /\ layout.kind = "return") =>
    ret = Return(IF layout.value \in DOMAIN display_map
                 THEN display_map[layout.value]
                 ELSE UpperCased[layout.value])

C7_Witness ==
  /\ op = "poll"
  /\ layout = Return("de")
  /\ display_map = ("us" :> "EN")
  /\ ret = Return("DE")

\* C8: a get_layout or poll call issues the query command and nothing else
\* and leaves the keyboard state and the widget as they were; called twice
\* in a row, it returns the same layout both times.
C8_QueryIdempotent ==
  [][ op' \in Queries =>
        /\ Len(issued') = 1
        /\ issued'[1].cmd = QueryCommand
        /\ xkb' = xkb
        /\ UNCHANGED << configVars, _option, status >>
        /\ op \in Queries => layout' = layout ]_vars

C8_Witness ==
  /\ streak = 2
  /\ op = "get_layout"
  /\ xkb.group = 2
  /\ ret = Return("de")

\* C9: a failing clear, apply or advance command raises nothing: a setup
\* run that has issued the clear command goes on to issue the apply command
\* and returns, the widget is configured, and next_layout returns.
C9_CommandFailuresAbsorbed ==
  /\ (op = "_configure" /\ issued # << >>) =>
       /\ ret = Return(None)
       /\ status = "configured"
       /\ Len(issued) = 2
       /\ issued[2].cmd = ApplyCommand(configured_layouts, _option)
  /\ op = "next_layout" => (ret = Return(None) /\ status = "configured")

C9_Witness ==
  /\ op = "_configure"
  /\ Len(issued) = 2
  /\ issued[1].res = "CalledProcessError"
  /\ ret = Return(None)
  /\ status = "configured"

\* C10: the apply command names the configured layouts joined by commas in
\* their order and carries -option with the stored option exactly when one
\* is stored; the stored option is None or a non-empty grp: string.
C10_ApplyContents ==
  /\ _option = None \/ (_option # "" /\ HasGrpPrefix(_option))
  /\ op = "_configure" =>
       \A i \in 1..Len(issued) :
         issued[i].cmd # ClearCommand =>
           /\ SubSeq(issued[i].cmd, 1, 2) = <<"setxkbmap", "-layout">>
           /\ SplitLayouts(issued[i].cmd[3]) = configured_layouts
           /\ IF _option # None
              THEN SubSeq(issued[i].cmd, 4, Len(issued[i].cmd)) = <<"-option", _option>>
              ELSE Len(issued[i].cmd) = 3

C10_Witness ==
  /\ op = "_configure"
  /\ Len(issued) = 2
  /\ configured_layouts = <<"us", "de">>
  /\ issued[2].cmd = <<"setxkbmap", "-layout", "us,de", "-option", "grp:lalt_lshift_toggle">>

====
